---- MODULE Spec2Model ----
(***************************************************************************)
(* Worker pool scheduler, whole-test retry and attempt executor of the E2E *)
(* order test runner (src/src/runner.ts, first revision in the file, lines *)
(* 1-604).                                                                 *)
(*                                                                         *)
(* The runner is single-threaded cooperative JavaScript: code between two  *)
(* awaits runs atomically.  Each action below is one such run-to-await     *)
(* segment.  A timer (setTimeout) is a pending delay that fires later; the *)
(* model keeps the requested duration, not a wall clock.  One attempt of   *)
(* runTest is a browser session whose outcome (success or caught failure)  *)
(* is chosen by the environment; runTest's try/catch turns every failure   *)
(* inside the attempt into a failed TestResult, and teardown in its        *)
(* finally block is taken to complete.                                     *)
(*                                                                         *)
(* Four further specifications look inside one attempt.  RunTestSpec is    *)
(* one call of runTest with the browser as environment: session setup, the *)
(* action loop with executeAction and clickWithRetry, the price passes,    *)
(* the catch block and the teardown.  CredSpec applies getCredentials to   *)
(* an environment, ValueSpec hands the value of a fill or evaluate action  *)
(* to the page, PriceSpec applies extractPrice to a rendered page.  Each   *)
(* specification leaves the variables of the others at their idle values.  *)
(*                                                                         *)
(* Two specifications vary the scheduler's settings.  PoolCredSpec runs    *)
(* the pool over an environment of login variables, each attempt resolving *)
(* its worker's credentials.  RetrySpec admits every attempt count that    *)
(* MAX_RETRIES can parse to, zero and negative included, with the worker   *)
(* rejection that an absent result leads to.                               *)
(***************************************************************************)
EXTENDS Integers, Sequences, FiniteSets, TLC

\* ---- bounds of the model ------------------------------------------------
MaxParallel == 2
MaxCases    == 2
MaxAttempts == 3
MaxActions  == 2
MaxEnvVars  == 4
MaxValueLen == 2
MaxTextLen  == 3

\* ---- program constants (defaults of the environment-sourced settings) ---
RETRY_DELAY_MS        == 5000
WORKER_START_DELAY_MS == 3000
\* maxRetries: number = 3, the default click budget of clickWithRetry
CLICK_MAX_RETRIES     == 3
\* const timeout = action.timeout || 30000
DEFAULT_TIMEOUT_MS    == 30000
\* page.click('text=OK', { timeout: 3000, ... }), waitForTimeout(500),
\* waitForTimeout(1000) of the click recovery
DISMISS_TIMEOUT_MS    == 3000
SETTLE_MS             == 500
COOLDOWN_MS           == 1000

\* One more worker slot than the largest limit, so that a launch loop that
\* runs one iteration too many is representable.
WorkerIds == 1..(MaxParallel + 1)
CaseIds   == 1..MaxCases

VARIABLES
    parallelCount,    \* concurrency limit handed to runTestsInParallel
    maxRetries,       \* MAX_RETRIES: maximum attempt count per case
    totalCount,       \* testCases.length
    queue,            \* shared work queue (sequence of case ids)
    results,          \* shared results collection (sequence of TestResult)
    completedCount,   \* completedCount
    workers,          \* worker promises pushed so far (set of worker ids)
    workerId,         \* loop variable of the launch loop
    mainPc,           \* position of main / runTestsInParallel
    startTimer,       \* pending start-delay timer (0 = none)
    wpc,              \* position of each worker loop
    item,             \* case a worker holds (0 = none)
    attempt,          \* loop variable of runTestWithRetry per worker
    lastResult,       \* lastResult of runTestWithRetry per worker
    retryTimer,       \* pending retry-delay timer per worker (0 = none)
    exitCode,         \* process exit code (-1 = not exited)
    persisted,        \* content of the results file
    \* history (not program state; records what happened)
    claimedBy,        \* per case: workers that removed it from the queue
    attemptsStarted,  \* per case: number of runTest calls begun
    workerCreds,      \* per worker: creds of its most recent runTest call
    attemptLog,       \* per case: TestResults returned by runTest, in order
    sleepLog,         \* per case: retry delays slept, in order
    completionLog,    \* test ids in the order their results were pushed
    startDelayLog     \* start delays that have elapsed, in order

schedulerVars == <<parallelCount, maxRetries, totalCount, queue, results,
          completedCount, workers, workerId, mainPc, startTimer, wpc, item,
          attempt, lastResult, retryTimer, exitCode, persisted, claimedBy,
          attemptsStarted, workerCreds, attemptLog, sleepLog, completionLog,
          startDelayLog>>

configVars == <<parallelCount, maxRetries, totalCount>>
mainVars   == <<workers, workerId, mainPc, startTimer, startDelayLog>>
exitVars   == <<exitCode, persisted>>

\* ---- one attempt of runTest, action by action -----------------------------
\* The attempt executor is modelled on its own variables: a call of
\* runTest(testCase, workerId, attempt) with the browser as environment.
VARIABLES
    testActions,      \* testCase.actions (sequence of action records)
    rtAttempt,        \* parameter attempt of runTest
    rtPc,             \* position of runTest (the await it is suspended at)
    browser,          \* let browser: "null", "open" or "closed"
    context,          \* let context: "null", "open" or "closed"
    page,             \* let page: "null" or "open"
    atConfirm,        \* page.url().includes('/confirm')
    actionIdx,        \* position of the for loop over testCase.actions
    screenshotIndex,  \* screenshotIndex.value
    screenshots,      \* const screenshots: string[]
    price,            \* let price (NoPrice = undefined)
    clickAttempt,     \* loop variable attempt of clickWithRetry (0 = none)
    lastError,        \* let lastError of clickWithRetry
    caught,           \* error bound by the catch block of runTest
    rtResult,         \* the TestResult runTest builds and returns
    \* history (not program state)
    dispatchLog,      \* indices of the actions handed to executeAction
    calls,            \* browser calls made for the current action, in order
    closeLog,         \* sessions closed by the finally block, in order
    passLog           \* outcomes of the price passes of this attempt

inputVars   == <<testActions, rtAttempt>>
sessionVars == <<browser, context, page, atConfirm>>
loopVars    == <<actionIdx, screenshotIndex, screenshots, price>>
clickVars   == <<clickAttempt, lastError>>
rtHistVars  == <<dispatchLog, calls, closeLog, passLog>>
runTestVars == <<inputVars, rtPc, sessionVars, loopVars, clickVars, caught,
                 rtResult, rtHistVars>>

\* ---- credentials and the values handed to the browser ---------------------
VARIABLES
    env,              \* process.env: the set of variables that are set
    credentialKey,    \* testCase.credentialKey ("" = absent)
    credWorkerId,     \* parameter workerId of getCredentials (0 = absent)
    creds,            \* the Credentials getCredentials returns
    valueAction,      \* a value-bearing action given to executeAction
    handed            \* the value executeAction hands to the page

credVars == <<env, credentialKey, credWorkerId, creds, valueAction, handed>>

\* ---- the page extractPrice reads ------------------------------------------
VARIABLES
    pageContent,      \* the rendered page: text of tr.total and of the body
    evalThrew,        \* page.evaluate of extractPrice threw
    extracted         \* what extractPrice returned

pageVars == <<pageContent, evalThrew, extracted>>

vars == <<schedulerVars, runTestVars, credVars, pageVars>>

\* ---- data ---------------------------------------------------------------
NoResult == [testId |-> 0, success |-> FALSE, workerId |-> 0, attempt |-> 0]

TestResult_NoWorker(c, ok, w, a) ==
    [testId |-> c, success |-> ok, workerId |-> 0, attempt |-> a]

TestResult(c, ok, w, a) ==
    [testId |-> c, success |-> ok, workerId |-> w, attempt |-> a]

\* const queue = [...testCases]
TestCases_DropLast(n) == [i \in 1..(IF n > 0 THEN n - 1 ELSE 0) |-> i]
TestCases(n) == [i \in 1..n |-> i]

\* ---- pure pieces of the code --------------------------------------------
\* for (let attempt = 1; attempt <= maxRetries; attempt++)
LoopCond_OneMore(a, m) == a <= m + 1
LoopCond(a, m) == a <= m

\* lastResult = await runTest(testCase, workerId, attempt)
KeepResult_First(old, new) == IF old.attempt = 0 THEN new ELSE old
KeepResult(old, new) == new

\* if (lastResult.success) return lastResult;
StopsOnSuccess_Never(r) == FALSE
StopsOnSuccess(r) == r.success

\* if (attempt < maxRetries) { ...sleep... }
NeedsDelay(a, m) == a < m

\* const delayMs = RETRY_DELAY_MS * attempt;
RetryDelay_Constant(a) == RETRY_DELAY_MS
RetryDelay(a) == RETRY_DELAY_MS * a

\* for (let workerId = 1; workerId <= parallelCount; workerId++)
LaunchCond_OneMore(k, n) == k <= n + 1
LaunchCond(k, n) == k <= n

\* if (workerId < parallelCount) { ...sleep WORKER_START_DELAY_MS... }
StartsDelayed_Never(k, n) == FALSE
StartsDelayed(k, n) == k < n

\* while (queue.length > 0)
LoopGuard_Never(q) == FALSE
LoopGuard(q) == Len(q) > 0

\* const item = queue.shift();  -- the element returned
ShiftItem(q) == Head(q)

\* const item = queue.shift();  -- the queue left behind
ShiftRest_Peek(q) == q
ShiftRest(q) == Tail(q)

\* results.push(result)
PushResult_Front(rs, r) == <<r>> \o rs
PushResult_OnlySuccess(rs, r) == IF r.success THEN Append(rs, r) ELSE rs
PushResult(rs, r) == Append(rs, r)

\* results.sort((a, b) => a.testId.localeCompare(b.testId)): a stable sort.
\* An element goes behind every element with a smaller id and behind the
\* elements with an equal id that preceded it.
RankById(s, i) ==
    1 + Cardinality({j \in 1..Len(s) :
                        \/ s[j].testId < s[i].testId
                        \/ (s[j].testId = s[i].testId /\ j < i)})

SortById_None(s) == s

SortById(s) ==
    [k \in 1..Len(s) |-> s[CHOOSE i \in 1..Len(s) : RankById(s, i) = k]]

\* const successCount = results.filter(r => r.success).length;
SuccessCount(rs) == Cardinality({i \in 1..Len(rs) : rs[i].success})

\* process.exit(successCount === results.length ? 0 : 1)
ExitCodeOf_AnySuccess(rs) == IF SuccessCount(rs) > 0 \/ Len(rs) = 0 THEN 0 ELSE 1
ExitCodeOf(rs) == IF SuccessCount(rs) = Len(rs) THEN 0 ELSE 1

\* ---- data of one attempt -------------------------------------------------
Undefined == "undefined"
NoPrice   == Undefined
Prices    == {"3,500", "4,200"}

\* The action kinds of the model: click (retried), fill (two browser calls
\* on a selector), evaluate (one browser call, no selector), the two capture
\* kinds, and two kinds the switch of executeAction has no case for.
TargetTypes  == {"click", "fill"}
CaptureTypes == {"screenshot", "screenshotFullPage"}
OtherTypes   == {"evaluate", "waitForResponse", "doesNotExist"}

\* timeout 0 stands for an action without a timeout field
TestAction(t, sel, ms) == [type |-> t, selector |-> sel, timeout |-> ms]

\* a timeout an action can carry: a third of it is a whole number
ShortTimeouts == {6000}

TestActionSet ==
    {TestAction(t, sel, 0) : t \in TargetTypes, sel \in {"#target", Undefined}}
    \cup {TestAction("click", "#target", ms) : ms \in ShortTimeouts}
    \cup {TestAction(t, Undefined, 0) : t \in CaptureTypes \cup OtherTypes}

SeqsUpTo(S, n) == UNION {[1..k -> S] : k \in 0..n}

NoError == [at |-> "none", idx |-> 0, try |-> 0]
Error(at, i, k) == [at |-> at, idx |-> i, try |-> k]

\* A browser call: the operation, the selector it is given ("n/a" when the
\* operation takes none), the force option of a click, and the time in ms
\* the call is allowed or asked to wait (0 = no such argument).
Call(op, sel, forced, ms) ==
    [op |-> op, selector |-> sel, force |-> forced, timeout |-> ms]

\* const timeout = action.timeout || 30000
ActionTimeout(action) ==
    IF action.timeout # 0 THEN action.timeout ELSE DEFAULT_TIMEOUT_MS

\* timeout / maxRetries, the allowance of one call of a click attempt
ClickAllowance(ms) == ms \div CLICK_MAX_RETRIES

\* A call whose selector argument is undefined is rejected when its
\* arguments are validated: it never reaches the page and never succeeds.
ReachesBrowser(c) == c.selector # Undefined

NoRunResult ==
    [success |-> FALSE, attempt |-> 0, price |-> NoPrice, error |-> NoError,
     screenshots |-> <<>>]

\* return { ..., success: true, screenshots, price, attempt }
PassedResult(a, p, shots) ==
    [success |-> TRUE, attempt |-> a, price |-> p, error |-> NoError,
     screenshots |-> shots]

\* return { ..., success: false, error: error.message, screenshots, attempt }
\* (the object has no price field)
FailedResult_NoShots(a, err, shots) ==
    [success |-> FALSE, attempt |-> a, price |-> NoPrice, error |-> err,
     screenshots |-> <<>>]

FailedResult(a, err, shots) ==
    [success |-> FALSE, attempt |-> a, price |-> NoPrice, error |-> err,
     screenshots |-> shots]

\* `${testCase.id}_${index}.png` and `${testCase.id}_error_attempt${n}.png`
ActionShot(index) == <<"shot", index>>
ErrorShot(a)      == <<"error_attempt", a>>

\* ---- data of the credentials ----------------------------------------------
\* Strings are kept as tokens.  A string read from the environment is the
\* token of the variable it was read from, so that its origin is visible;
\* Empty stands for '' and for undefined, the two falsy reads.
Token(kind, profile, field, worker) ==
    [kind |-> kind, profile |-> profile, field |-> field, worker |-> worker]

Empty     == Token("empty", "", "", 0)
Text      == Token("text", "", "", 0)
UserToken == Token("placeholder", "", "LOGIN_USER", 0)
PassToken == Token("placeholder", "", "LOGIN_PASS", 0)

Truthy(t) == t # Empty

\* `${key}_${field}` (worker 0) and `${key}_${field}_W${worker}`
EnvName(key, field, worker) ==
    [profile |-> key, field |-> field, worker |-> worker]

Profiles == {"DEV", "STG"}
Fields   == {"LOGIN_USER", "LOGIN_PASS"}

EnvNames ==
    {EnvName(k, f, w) : k \in Profiles, f \in Fields, w \in 0..MaxParallel}

\* the environments of the model: at most MaxEnvVars variables are set
Envs == {E \in SUBSET EnvNames : Cardinality(E) <= MaxEnvVars}

\* process.env[name]
Lookup(E, name) ==
    IF name \in E
    THEN Token("value", name.profile, name.field, name.worker)
    ELSE Empty

CredentialKeys == {"", "dev", "stg"}

\* (credentialKey || 'dev').toUpperCase()
ToUpperCase(s) == CASE s = "dev" -> "DEV" [] s = "stg" -> "STG" [] OTHER -> s
ProfileKey(k) == ToUpperCase(IF k = "" THEN "dev" ELSE k)

Credentials(u, p) == [loginUser |-> u, loginPass |-> p]
NoCredentials == Credentials(Text, Text)

\* if (workerUser && workerPass)
PreferWorker_Never(wu, wp) == FALSE
PreferWorker(wu, wp) == Truthy(wu) /\ Truthy(wp)

\* function getCredentials(credentialKey?, workerId?)
GetCredentials_PerField(k, w, E) ==
    LET key == ProfileKey(k)
        pick(f) == IF w # 0 /\ Truthy(Lookup(E, EnvName(key, f, w)))
                   THEN Lookup(E, EnvName(key, f, w))
                   ELSE Lookup(E, EnvName(key, f, 0))
    IN  Credentials(pick("LOGIN_USER"), pick("LOGIN_PASS"))

GetCredentials(k, w, E) ==
    LET key == ProfileKey(k)
        workerUser == IF w # 0 THEN Lookup(E, EnvName(key, "LOGIN_USER", w))
                      ELSE Empty
        workerPass == IF w # 0 THEN Lookup(E, EnvName(key, "LOGIN_PASS", w))
                      ELSE Empty
        taken == w # 0 /\ PreferWorker(workerUser, workerPass)
        loginUser == IF taken THEN workerUser ELSE Empty
        loginPass == IF taken THEN workerPass ELSE Empty
    IN  IF ~Truthy(loginUser) \/ ~Truthy(loginPass)
        THEN Credentials(Lookup(E, EnvName(key, "LOGIN_USER", 0)),
                         Lookup(E, EnvName(key, "LOGIN_PASS", 0)))
        ELSE Credentials(loginUser, loginPass)

\* String.prototype.replace with a string pattern: the first occurrence
ReplaceFirst(v, tok, rep) ==
    LET hits == {i \in 1..Len(v) : v[i] = tok}
    IN  IF hits = {} THEN v
        ELSE [i \in 1..Len(v) |->
                IF i = CHOOSE h \in hits : \A g \in hits : h <= g
                THEN rep ELSE v[i]]

\* function replaceCredentialPlaceholders(value, creds)
ReplaceCredentialPlaceholders(v, c) ==
    ReplaceFirst(ReplaceFirst(v, UserToken, c.loginUser),
                 PassToken, c.loginPass)

ValueTypes   == {"fill", "evaluate"}
Values       == SeqsUpTo({Text, UserToken, PassToken}, MaxValueLen)
ValueActions == {[type |-> t, value |-> v] : t \in ValueTypes, v \in Values}
NoAction     == [type |-> "none", value |-> <<>>]
NotHanded    == <<Token("none", "", "", 0)>>

\* executeAction: the value that case 'fill' gives to page.fill and that
\* case 'evaluate' gives to page.evaluate
ValueHanded(action, c) ==
    IF action.type = "fill"
    THEN ReplaceCredentialPlaceholders(action.value, c)
    ELSE action.value

\* ---- data of the price extraction ------------------------------------------
\* Page text is a sequence of tokens: the total label, white space, other
\* text, and currency amounts (digits and commas followed by the yen sign).
TotalLabel == "total-label"
WhiteSpace == "space"
OtherText  == "other"
TextTokens == {TotalLabel, WhiteSpace, OtherText} \cup Prices
Texts(n)   == SeqsUpTo(TextTokens, n)

\* document.querySelector('tr.total') found no element
NoRow == <<"no tr.total">>
Null  == "null"

Page(row, body) == [row |-> row, body |-> body]
Pages ==
    {Page(r, b) : r \in {NoRow} \cup Texts(MaxTextLen - 1),
                  b \in Texts(MaxTextLen)}

\* text.match(/([0-9,]+円)/): the first amount of the text, or Null
MatchAmount(text) ==
    LET hits == {k \in 1..Len(text) : text[k] \in Prices}
    IN  IF hits = {} THEN Null
        ELSE text[CHOOSE k \in hits : \A j \in hits : k <= j]

\* bodyText.match(/合計\s*([0-9,]+円)/): the amount of the leftmost
\* occurrence of the label that only white space separates from an amount
MatchLabelledAmount(text) ==
    LET ends == {j \in 1..Len(text) :
                   /\ text[j] \in Prices
                   /\ \E i \in 1..(j - 1) :
                        /\ text[i] = TotalLabel
                        /\ \A m \in (i + 1)..(j - 1) : text[m] = WhiteSpace}
    IN  IF ends = {} THEN Null
        ELSE text[CHOOSE j \in ends : \A k \in ends : j <= k]

\* the function page.evaluate runs in the page
EvaluateInPage_BodyFirst(pg) ==
    IF MatchLabelledAmount(pg.body) # Null
    THEN MatchLabelledAmount(pg.body)
    ELSE IF pg.row # NoRow THEN MatchAmount(pg.row) ELSE Null

EvaluateInPage(pg) ==
    IF pg.row # NoRow /\ MatchAmount(pg.row) # Null
    THEN MatchAmount(pg.row)
    ELSE MatchLabelledAmount(pg.body)

\* catch (error) { ...; return undefined; }
Thrown == "thrown"
OnExtractError_Rethrow == Thrown
OnExtractError == NoPrice

\* async function extractPrice(page): return price || undefined, or the
\* catch when page.evaluate threw
ExtractPrice(pg, threw) ==
    IF threw THEN OnExtractError
    ELSE IF EvaluateInPage(pg) = Null THEN NoPrice ELSE EvaluateInPage(pg)

NoPage       == Page(NoRow, <<>>)
NotExtracted == "pending"

\* extractPrice is not being applied to a page
PageIdle ==
    /\ pageContent = NoPage
    /\ evalThrew = FALSE
    /\ extracted = NotExtracted

\* no credentials are being resolved and no value is being handed over
CredIdle ==
    /\ env = {}
    /\ credentialKey = ""
    /\ credWorkerId = 0
    /\ creds = NoCredentials
    /\ valueAction = NoAction
    /\ handed = NotHanded

\* runTest has not been called
RunTestIdle ==
    /\ testActions = <<>>
    /\ rtAttempt = 0
    /\ rtPc = "idle"
    /\ browser = "null"
    /\ context = "null"
    /\ page = "null"
    /\ atConfirm = FALSE
    /\ actionIdx = 0
    /\ screenshotIndex = 1
    /\ screenshots = <<>>
    /\ price = NoPrice
    /\ clickAttempt = 0
    /\ lastError = NoError
    /\ caught = NoError
    /\ rtResult = NoRunResult
    /\ dispatchLog = <<>>
    /\ calls = <<>>
    /\ closeLog = <<>>
    /\ passLog = <<>>

\* ---- initial state: main() has loaded the cases and read its settings ----
SchedulerStart ==
    /\ queue = <<>>
    /\ results = <<>>
    /\ completedCount = 0
    /\ workers = {}
    /\ workerId = 1
    /\ mainPc = "start"
    /\ startTimer = 0
    /\ wpc = [w \in WorkerIds |-> "notStarted"]
    /\ item = [w \in WorkerIds |-> 0]
    /\ attempt = [w \in WorkerIds |-> 0]
    /\ lastResult = [w \in WorkerIds |-> NoResult]
    /\ retryTimer = [w \in WorkerIds |-> 0]
    /\ exitCode = -1
    /\ persisted = <<>>
    /\ claimedBy = [c \in CaseIds |-> <<>>]
    /\ attemptsStarted = [c \in CaseIds |-> 0]
    /\ workerCreds = [w \in WorkerIds |-> NoCredentials]
    /\ attemptLog = [c \in CaseIds |-> <<>>]
    /\ sleepLog = [c \in CaseIds |-> <<>>]
    /\ completionLog = <<>>
    /\ startDelayLog = <<>>

Init ==
    /\ parallelCount \in 0..MaxParallel
    /\ maxRetries \in 1..MaxAttempts
    /\ totalCount \in 0..MaxCases
    /\ SchedulerStart
    /\ RunTestIdle
    /\ CredIdle
    /\ PageIdle

\* ---- runTest: getCredentials(testCase.credentialKey, workerId) -----------
\* the worker id runTest resolves the credentials for
CredsWorker_First(w) == 1
CredsWorker(w) == w

\* ---- runTestWithRetry: head of the attempt loop with attempt = a ---------
\* Either runTest(testCase, workerId, a) is called (it runs up to its first
\* await, the browser launch) or the loop is left and lastResult returned.
EnterAttempt(w, c, a) ==
    /\ attempt' = [attempt EXCEPT ![w] = a]
    /\ IF LoopCond(a, maxRetries)
       THEN /\ wpc' = [wpc EXCEPT ![w] = "runTest"]
            /\ attemptsStarted' = [attemptsStarted EXCEPT ![c] = @ + 1]
            /\ workerCreds' = [workerCreds EXCEPT ![w] =
                  GetCredentials(credentialKey, CredsWorker(w), env)]
       ELSE /\ wpc' = [wpc EXCEPT ![w] = "returning"]
            /\ UNCHANGED <<attemptsStarted, workerCreds>>

\* ---- worker loop head, entered with the queue as it is now ---------------
\* No await separates the length test, the shift and the call of
\* runTestWithRetry, so the claim of a case is one step.
WorkerLoop(w, q) ==
    IF LoopGuard(q)
    THEN LET c == ShiftItem(q) IN
         /\ queue' = ShiftRest(q)
         /\ item' = [item EXCEPT ![w] = c]
         /\ lastResult' = [lastResult EXCEPT ![w] = NoResult]
         /\ claimedBy' = [claimedBy EXCEPT ![c] = Append(@, w)]
         /\ EnterAttempt(w, c, 1)
    ELSE /\ queue' = q
         /\ wpc' = [wpc EXCEPT ![w] = "finished"]
         /\ item' = [item EXCEPT ![w] = 0]
         /\ attempt' = [attempt EXCEPT ![w] = 0]
         /\ lastResult' = [lastResult EXCEPT ![w] = NoResult]
         /\ UNCHANGED <<claimedBy, attemptsStarted, workerCreds>>

\* ---- one iteration of the launch loop for worker k ------------------------
LaunchWorker(k, q) ==
    /\ workers' = workers \cup {k}
    /\ WorkerLoop(k, q)
    /\ IF StartsDelayed(k, parallelCount)
       THEN /\ startTimer' = WORKER_START_DELAY_MS
            /\ workerId' = k
            /\ mainPc' = "startDelay"
       ELSE /\ startTimer' = 0
            /\ workerId' = k + 1
            /\ mainPc' = IF LaunchCond(k + 1, parallelCount)
                         THEN "loop" ELSE "join"

\* ---- runTestsInParallel: a run-to-await segment of the launch loop -------
\* Entered when main calls runTestsInParallel ("start": results and queue
\* are created first), resumed when the start-delay timer fires
\* ("startDelay": workerId++ and the loop test follow at once), or
\* continued when an iteration did not suspend ("loop").
LaunchLoop ==
    /\ mainPc \in {"start", "startDelay", "loop"}
    /\ LET k == IF mainPc = "startDelay" THEN workerId + 1 ELSE workerId
           q == IF mainPc = "start" THEN TestCases(totalCount) ELSE queue
       IN
       /\ startDelayLog' = IF mainPc = "startDelay"
                           THEN Append(startDelayLog, startTimer)
                           ELSE startDelayLog
       /\ IF LaunchCond(k, parallelCount)
          THEN LaunchWorker(k, q)
          ELSE /\ queue' = q
               /\ workerId' = k
               /\ startTimer' = 0
               /\ mainPc' = "join"
               /\ UNCHANGED <<workers, wpc, item, attempt, lastResult,
                              claimedBy, attemptsStarted, workerCreds>>
    /\ UNCHANGED <<configVars, results, completedCount, retryTimer,
                   exitVars, attemptLog, sleepLog,
                   completionLog>>
    /\ UNCHANGED <<runTestVars, credVars, pageVars>>

\* ---- runTest resolves; runTestWithRetry decides what follows -------------
RunTestDone(w) ==
    /\ wpc[w] = "runTest"
    /\ \E ok \in BOOLEAN :
         LET c == item[w]
             r == TestResult(c, ok, w, attempt[w])
         IN
         /\ lastResult' = [lastResult EXCEPT ![w] = KeepResult(@, r)]
         /\ attemptLog' = [attemptLog EXCEPT ![c] = Append(@, r)]
         /\ IF StopsOnSuccess(r)
            THEN /\ wpc' = [wpc EXCEPT ![w] = "returning"]
                 /\ UNCHANGED <<attempt, attemptsStarted, workerCreds,
                                retryTimer,
                                sleepLog>>
            ELSE IF NeedsDelay(attempt[w], maxRetries)
            THEN /\ retryTimer' = [retryTimer EXCEPT
                                     ![w] = RetryDelay(attempt[w])]
                 /\ sleepLog' = [sleepLog EXCEPT
                                   ![c] = Append(@, RetryDelay(attempt[w]))]
                 /\ wpc' = [wpc EXCEPT ![w] = "retryDelay"]
                 /\ UNCHANGED <<attempt, attemptsStarted, workerCreds>>
            ELSE /\ EnterAttempt(w, c, attempt[w] + 1)
                 /\ UNCHANGED <<retryTimer, sleepLog>>
    /\ UNCHANGED <<configVars, mainVars, exitVars, queue, results,
                   completedCount, item, claimedBy,
                   completionLog>>
    /\ UNCHANGED <<runTestVars, credVars, pageVars>>

\* ---- the retry delay has elapsed: attempt++ and the loop test ------------
RetryDelayElapsed(w) ==
    /\ wpc[w] = "retryDelay"
    /\ retryTimer' = [retryTimer EXCEPT ![w] = 0]
    /\ EnterAttempt(w, item[w], attempt[w] + 1)
    /\ UNCHANGED <<configVars, mainVars, exitVars, queue, results,
                   completedCount, item, lastResult, claimedBy, attemptLog,
                   sleepLog,
                   completionLog>>
    /\ UNCHANGED <<runTestVars, credVars, pageVars>>

\* ---- runTestWithRetry has resolved: record the result, take the next -----
WorkerResume_StopOnFailure(w) ==
    /\ wpc[w] = "returning"
    /\ results' = PushResult(results, lastResult[w])
    /\ completionLog' = Append(completionLog, lastResult[w].testId)
    /\ completedCount' = completedCount + 1
    /\ IF lastResult[w].success
       THEN WorkerLoop(w, queue)
       ELSE /\ wpc' = [wpc EXCEPT ![w] = "finished"]
            /\ item' = [item EXCEPT ![w] = 0]
            /\ attempt' = [attempt EXCEPT ![w] = 0]
            /\ lastResult' = [lastResult EXCEPT ![w] = NoResult]
            /\ UNCHANGED <<queue, claimedBy, attemptsStarted, workerCreds>>
    /\ UNCHANGED <<configVars, mainVars, exitVars, retryTimer, attemptLog,
                   sleepLog>>
    /\ UNCHANGED <<runTestVars, credVars, pageVars>>

\* An absent result (runTestWithRetry returned without an attempt) is pushed
\* and counted like any other; reading result.success then throws and the
\* worker's promise rejects with the case still attributed to it.
WorkerResume(w) ==
    /\ wpc[w] = "returning"
    /\ results' = PushResult(results, lastResult[w])
    /\ completionLog' = Append(completionLog, lastResult[w].testId)
    /\ completedCount' = completedCount + 1
    /\ IF lastResult[w] = NoResult
       THEN /\ wpc' = [wpc EXCEPT ![w] = "rejected"]
            /\ UNCHANGED <<queue, item, attempt, lastResult, claimedBy,
                           attemptsStarted, workerCreds>>
       ELSE WorkerLoop(w, queue)
    /\ UNCHANGED <<configVars, mainVars, exitVars, retryTimer, attemptLog,
                   sleepLog>>
    /\ UNCHANGED <<runTestVars, credVars, pageVars>>

\* ---- await Promise.all(workers); return results --------------------------
RunTestsInParallelReturn_NoJoin ==
    /\ mainPc = "join"
    /\ mainPc' = "returned"
    /\ UNCHANGED <<configVars, queue, results, completedCount, workers,
                   workerId, startTimer, startDelayLog, wpc, item, attempt,
                   lastResult, retryTimer, exitVars, claimedBy,
                   attemptsStarted, workerCreds, attemptLog, sleepLog,
                   completionLog>>
    /\ UNCHANGED <<runTestVars, credVars, pageVars>>

RunTestsInParallelReturn ==
    /\ mainPc = "join"
    /\ \A w \in workers : wpc[w] = "finished"
    /\ mainPc' = "returned"
    /\ UNCHANGED <<configVars, queue, results, completedCount, workers,
                   workerId, startTimer, startDelayLog, wpc, item, attempt,
                   lastResult, retryTimer, exitVars, claimedBy,
                   attemptsStarted, workerCreds, attemptLog, sleepLog,
                   completionLog>>
    /\ UNCHANGED <<runTestVars, credVars, pageVars>>

\* ---- main after the scheduler: sort, persist, exit -----------------------
MainFinish ==
    /\ mainPc = "returned"
    /\ results' = SortById(results)
    /\ persisted' = SortById(results)
    /\ exitCode' = ExitCodeOf(SortById(results))
    /\ mainPc' = "exited"
    /\ UNCHANGED <<configVars, queue, completedCount, workers, workerId,
                   startTimer, startDelayLog, wpc, item, attempt,
                   lastResult, retryTimer, claimedBy, attemptsStarted,
                   workerCreds,
                   attemptLog, sleepLog,
                   completionLog>>
    /\ UNCHANGED <<runTestVars, credVars, pageVars>>

\* ---- a worker promise rejected while main is suspended -------------------
\* During a start delay nothing handles the rejection yet.  A runtime that
\* ends the process on an unhandled rejection does so with exit code 1; one
\* that only warns lets the launch loop go on (LaunchLoop).
UnhandledRejection ==
    /\ mainPc = "startDelay"
    /\ \E w \in workers : wpc[w] = "rejected"
    /\ mainPc' = "exited"
    /\ exitCode' = 1
    /\ UNCHANGED <<configVars, queue, results, completedCount, workers,
                   workerId, startTimer, startDelayLog, wpc, item, attempt,
                   lastResult, retryTimer, persisted, claimedBy,
                   attemptsStarted, workerCreds, attemptLog, sleepLog,
                   completionLog>>
    /\ UNCHANGED <<runTestVars, credVars, pageVars>>

\* await Promise.all(workers) rejects, so do runTestsInParallel and main;
\* main().catch(console.error) logs the error.  Nothing is sorted or
\* persisted and process.exit is not called: the process ends with code 0
\* once the remaining workers have settled.
MainRejected ==
    /\ mainPc = "join"
    /\ \E w \in workers : wpc[w] = "rejected"
    /\ \A w \in workers : wpc[w] \in {"finished", "rejected"}
    /\ mainPc' = "exited"
    /\ exitCode' = 0
    /\ UNCHANGED <<configVars, queue, results, completedCount, workers,
                   workerId, startTimer, startDelayLog, wpc, item, attempt,
                   lastResult, retryTimer, persisted, claimedBy,
                   attemptsStarted, workerCreds, attemptLog, sleepLog,
                   completionLog>>
    /\ UNCHANGED <<runTestVars, credVars, pageVars>>

Next ==
    \/ LaunchLoop
    \/ \E w \in WorkerIds : RunTestDone(w)
    \/ \E w \in WorkerIds : RetryDelayElapsed(w)
    \/ \E w \in WorkerIds : WorkerResume(w)
    \/ RunTestsInParallelReturn
    \/ MainFinish

Spec == Init /\ [][Next]_vars

\* Every attempt terminates, every timer fires, every resumed continuation
\* runs: the event loop serves each pending task.
Fairness ==
    /\ WF_vars(LaunchLoop)
    /\ \A w \in WorkerIds : WF_vars(RunTestDone(w))
    /\ \A w \in WorkerIds : WF_vars(RetryDelayElapsed(w))
    /\ \A w \in WorkerIds : WF_vars(WorkerResume(w))
    /\ WF_vars(RunTestsInParallelReturn)
    /\ WF_vars(MainFinish)

FairSpec == Spec /\ Fairness

\* ---- the scheduler under any configured attempt count --------------------
\* MAX_RETRIES is parseInt of an environment variable and is not validated:
\* zero and negative counts reach runTestWithRetry as they are.
RetryInit ==
    /\ parallelCount \in 1..MaxParallel
    /\ maxRetries \in -1..MaxAttempts
    /\ totalCount \in 1..MaxCases
    /\ SchedulerStart
    /\ RunTestIdle
    /\ CredIdle
    /\ PageIdle

RetryNext ==
    \/ Next
    \/ UnhandledRejection
    \/ MainRejected

RetrySpec == RetryInit /\ [][RetryNext]_vars

TypeOK ==
    /\ parallelCount \in 0..MaxParallel
    /\ maxRetries \in 1..MaxAttempts
    /\ totalCount \in 0..MaxCases
    /\ mainPc \in {"start", "startDelay", "loop", "join", "returned", "exited"}
    /\ \A w \in WorkerIds :
         wpc[w] \in {"notStarted", "runTest", "retryDelay", "returning",
                     "finished"}
    /\ exitCode \in {-1, 0, 1}

\* ---- vocabulary of the properties ----------------------------------------
Cases == 1..totalCount

Range(f) == {f[i] : i \in DOMAIN f}

ResultsFor(c) == {i \in 1..Len(results) : results[i].testId = c}

Completed == mainPc \in {"returned", "exited"}

\* claimed from the queue but no result appended yet
InFlight == {c \in CaseIds : claimedBy[c] # <<>> /\ ResultsFor(c) = {}}

ClaimsOf(w) == {c \in CaseIds : w \in Range(claimedBy[c])}

Started(w) == wpc[w] # "notStarted"

FailedAttempts(c) == {i \in 1..Len(attemptLog[c]) : ~attemptLog[c][i].success}

\* C1: for N >= 1 and a maximum attempt count >= 1, once runTestsInParallel
\* has completed the results collection holds exactly one TestResult for
\* each input case, whatever the number of attempts and the interleaving.
C1_ExactlyOneResultPerCase ==
    (Completed /\ parallelCount >= 1 /\ maxRetries >= 1) =>
        /\ Len(results) = totalCount
        /\ \A c \in Cases : Cardinality(ResultsFor(c)) = 1

C1_Witness ==
    /\ mainPc = "returned"
    /\ parallelCount >= 2
    /\ totalCount >= 2
    /\ \E i \in 1..Len(results) : results[i].attempt >= 2
    /\ \E i \in 1..Len(results) : ~results[i].success
    /\ results[1].testId # 1

C3_FailureOnlyAfterAllAttempts ==
    /\ \A c \in Cases : attemptsStarted[c] <= maxRetries
    /\ \A w \in WorkerIds :
         (wpc[w] = "returning" /\ ~lastResult[w].success) =>
             /\ lastResult[w].attempt = maxRetries
             /\ attemptsStarted[item[w]] = maxRetries
             /\ Len(attemptLog[item[w]]) = maxRetries
             /\ FailedAttempts(item[w]) = 1..maxRetries
    /\ \A i \in 1..Len(results) :
         ~results[i].success =>
             /\ results[i].attempt = maxRetries
             /\ attemptsStarted[results[i].testId] = maxRetries

C3_Witness ==
    \E w \in WorkerIds :
        /\ wpc[w] = "returning"
        /\ ~lastResult[w].success
        /\ maxRetries = 2
        /\ attemptsStarted[item[w]] = 2

\* C4: attempts of a case are numbered 1, 2, ...; a successful attempt is
\* the last one of its case (none is started after it), and the result
\* runTestWithRetry then returns is that attempt's result.
C4_StopsAtFirstSuccess ==
    /\ \A c \in Cases :
         \A i \in 1..Len(attemptLog[c]) :
             /\ attemptLog[c][i].attempt = i
             /\ attemptLog[c][i].success =>
                  /\ i = Len(attemptLog[c])
                  /\ attemptsStarted[c] = i
    /\ \A w \in WorkerIds :
         (wpc[w] = "returning" /\ lastResult[w].success) =>
             /\ lastResult[w] = attemptLog[item[w]][Len(attemptLog[item[w]])]
             /\ lastResult[w].attempt = attemptsStarted[item[w]]
    /\ \A w \in WorkerIds :
         wpc[w] \in {"runTest", "retryDelay"} =>
             \A i \in 1..Len(attemptLog[item[w]]) :
                 ~attemptLog[item[w]][i].success

C4_Witness ==
    \E w \in WorkerIds :
        /\ wpc[w] = "returning"
        /\ lastResult[w].success
        /\ lastResult[w].attempt = 2
        /\ maxRetries = 3

\* C5: a case whose final result is a failure does not stop the batch:
\* from any state in which a failed result has been collected, the run
\* goes on to exit with every input case attempted and present in the
\* reported results.
C5_FailureDoesNotStopBatch ==
    (\E i \in 1..Len(results) : ~results[i].success)
        ~> (/\ mainPc = "exited"
            /\ \A c \in Cases :
                 /\ attemptsStarted[c] >= 1
                 /\ \E i \in 1..Len(persisted) : persisted[i].testId = c)

C5_Witness ==
    /\ mainPc = "exited"
    /\ parallelCount = 1
    /\ totalCount = 2
    /\ Len(persisted) = 2
    /\ ~persisted[1].success
    /\ persisted[2].success

\* C6: the cases in flight (claimed, result not yet appended) never
\* outnumber the concurrency limit, and no worker has two in flight.
C6_InFlightBounded ==
    /\ Cardinality(InFlight) <= parallelCount
    /\ \A w \in WorkerIds : Cardinality(ClaimsOf(w) \cap InFlight) <= 1

C6_Witness ==
    /\ parallelCount >= 1
    /\ Cardinality(InFlight) = parallelCount
    /\ queue # <<>>
    /\ \E w \in WorkerIds : wpc[w] = "retryDelay"

C8_StaggeredLaunch ==
    /\ \A i \in 1..Len(startDelayLog) :
         startDelayLog[i] = WORKER_START_DELAY_MS
    /\ \A k \in 1..MaxParallel :
         /\ Started(k + 1) => (Started(k) /\ Len(startDelayLog) >= k)
         /\ ClaimsOf(k + 1) # {} => ClaimsOf(k) # {}
    /\ \A k \in WorkerIds :
         (Started(k) /\ ClaimsOf(k) = {}) => queue = <<>>

C8_Witness ==
    /\ Started(2)
    /\ ClaimsOf(2) # {}
    /\ wpc[1] = "runTest"
    /\ attemptsStarted[1] = 1
    /\ startDelayLog = <<WORKER_START_DELAY_MS>>

C10_ExitCode ==
    mainPc = "exited" =>
        /\ exitCode \in {0, 1}
        /\ exitCode = 0 <=> \A i \in 1..Len(persisted) : persisted[i].success
        /\ persisted = results

C10_Witness ==
    /\ mainPc = "exited"
    /\ exitCode = 0
    /\ Len(persisted) >= 2
    /\ \E i \in 1..Len(persisted) : persisted[i].attempt >= 2
    /\ \E c \in Cases : FailedAttempts(c) # {}

\* =========================================================================
\* One attempt: runTest, executeAction, clickWithRetry, extractPrice
\* =========================================================================
\* Every call into the browser is an await whose outcome (resolve or reject)
\* the environment chooses; each action below is the code that runs when
\* one such call settles, up to the next call.  The two close calls of the
\* finally block are taken to resolve.

\* ---- finally { if (context) ...close(); if (browser) ...close(); } --------
Finally_BrowserOnly ==
    rtPc' = IF browser # "null" THEN "browser.close" ELSE "done"

Finally ==
    rtPc' = IF context # "null" THEN "context.close"
            ELSE IF browser # "null" THEN "browser.close"
            ELSE "done"

\* ---- catch (error) of runTest ----------------------------------------------
\* With a page the failure screenshot is requested first; without one the
\* failed result is built at once and the finally block entered.
Catch(err) ==
    /\ caught' = err
    /\ IF page # "null"
       THEN /\ rtPc' = "errorScreenshot"
            /\ UNCHANGED rtResult
       ELSE /\ rtResult' = FailedResult(rtAttempt, err, screenshots)
            /\ Finally

\* an exception reaches the catch block; nothing else changes
Fail(err) ==
    /\ Catch(err)
    /\ UNCHANGED <<sessionVars, loopVars, clickAttempt, rtHistVars>>

\* ---- executeAction: an await of a kind other than click rejects -------------
\* No try surrounds the awaits of these cases: the rejection leaves
\* executeAction and reaches the catch block of runTest.
Propagate_Retry(err) ==
    /\ calls' = Append(calls, calls[Len(calls)])
    /\ UNCHANGED <<rtPc, sessionVars, loopVars, clickAttempt, caught,
                   rtResult, dispatchLog, closeLog, passLog>>

Propagate(err) == Fail(err)

\* ---- clickWithRetry: lastError = error ------------------------------------
KeepError_First(old, new) == IF old = NoError THEN new ELSE old
KeepError(old, new) == new

\* force: attempt > 1
Forced_Always(a) == TRUE
Forced(a) == a > 1

\* if (attempt < maxRetries): recovery follows a failed click attempt
Recovers_Always(a) == TRUE
Recovers_Twice(a) == a < CLICK_MAX_RETRIES - 1
Recovers(a) == a < CLICK_MAX_RETRIES

\* for (let i = 0; ...; i++): the next action after the one at position i
NextAction_Skip(i) == i + 2
NextAction(i) == i + 1

\* ---- head of the action loop with the action at position i ----------------
\* shots and p are screenshots and price as they are when the loop head is
\* reached.  Past the last action the success result is returned; otherwise
\* executeAction runs up to its first browser call.
Dispatch(i, shots, p) ==
    /\ actionIdx' = i
    /\ IF i > Len(testActions)
       THEN /\ rtResult' = PassedResult(rtAttempt, p, shots)
            /\ Finally
            /\ UNCHANGED <<dispatchLog, calls, clickVars, screenshotIndex>>
       ELSE LET action == testActions[i] IN
            /\ dispatchLog' = Append(dispatchLog, i)
            /\ UNCHANGED rtResult
            /\ IF action.type = "click"
               THEN /\ clickAttempt' = 1
                    /\ lastError' = NoError
                    /\ rtPc' = "click.waitForSelector"
                    /\ calls' = <<Call("waitForSelector", action.selector,
                                       FALSE,
                                       ClickAllowance(ActionTimeout(action)))>>
                    /\ UNCHANGED screenshotIndex
               ELSE IF action.type = "fill"
               THEN /\ rtPc' = "fill.waitForSelector"
                    /\ calls' = <<Call("waitForSelector", action.selector,
                                       FALSE, ActionTimeout(action))>>
                    /\ UNCHANGED <<clickVars, screenshotIndex>>
               ELSE IF action.type = "evaluate"
               THEN /\ rtPc' = "evaluate"
                    /\ calls' = <<Call("evaluate", "n/a", FALSE, 0)>>
                    /\ UNCHANGED <<clickVars, screenshotIndex>>
               ELSE IF action.type \in CaptureTypes
               THEN /\ rtPc' = "screenshot"
                    /\ screenshotIndex' = screenshotIndex + 1
                    /\ calls' = <<Call("screenshot", "n/a", FALSE, 0)>>
                    /\ UNCHANGED clickVars
               ELSE /\ rtPc' = "unknown"
                    /\ calls' = <<>>
                    /\ UNCHANGED <<clickVars, screenshotIndex>>

\* ---- runTest after executeAction has returned for the action at i ---------
\* shots is screenshots after the push of result.screenshot, if any.
AfterAction(i, shots) ==
    /\ screenshots' = shots
    /\ IF testActions[i].type = "screenshotFullPage" /\ atConfirm
       THEN /\ rtPc' = "extractPrice"
            /\ calls' = Append(calls, Call("extractPrice", "n/a", FALSE, 0))
            /\ UNCHANGED <<actionIdx, dispatchLog, clickVars, rtResult,
                           screenshotIndex, price>>
       ELSE /\ Dispatch(NextAction(i), shots, price)
            /\ UNCHANGED price

\* ---- runTest is called: chromium.launch() ----------------------------------
BeginRunTest ==
    /\ rtPc = "idle"
    /\ rtPc' = "launch"
    /\ UNCHANGED <<inputVars, sessionVars, loopVars, clickVars, caught,
                   rtResult, rtHistVars, schedulerVars, credVars, pageVars>>

LaunchDone ==
    /\ rtPc = "launch"
    /\ \E ok \in BOOLEAN :
         IF ok
         THEN /\ browser' = "open"
              /\ rtPc' = "newContext"
              /\ UNCHANGED <<context, page, atConfirm, loopVars,
                             clickAttempt, caught, rtResult, rtHistVars>>
         ELSE Fail(Error("launch", 0, 0))
    /\ UNCHANGED <<inputVars, lastError, schedulerVars, credVars, pageVars>>

NewContextDone ==
    /\ rtPc = "newContext"
    /\ \E ok \in BOOLEAN :
         IF ok
         THEN /\ context' = "open"
              /\ rtPc' = "newPage"
              /\ UNCHANGED <<browser, page, atConfirm, loopVars,
                             clickAttempt, caught, rtResult, rtHistVars>>
         ELSE Fail(Error("newContext", 0, 0))
    /\ UNCHANGED <<inputVars, lastError, schedulerVars, credVars, pageVars>>

NewPageDone ==
    /\ rtPc = "newPage"
    /\ \E ok \in BOOLEAN :
         IF ok
         THEN /\ page' = "open"
              /\ rtPc' = "goto"
              /\ UNCHANGED <<browser, context, atConfirm, loopVars,
                             clickAttempt, caught, rtResult, rtHistVars>>
         ELSE Fail(Error("newPage", 0, 0))
    /\ UNCHANGED <<inputVars, lastError, schedulerVars, credVars, pageVars>>

\* ---- the initial navigation settles ----------------------------------------
GotoDone ==
    /\ rtPc = "goto"
    /\ \E ok \in BOOLEAN :
         IF ok
         THEN /\ atConfirm' \in BOOLEAN
              /\ Dispatch(1, screenshots, price)
              /\ UNCHANGED <<browser, context, page, screenshots, price,
                             caught, closeLog, passLog>>
         ELSE /\ Fail(Error("goto", 0, 0))
              /\ UNCHANGED lastError
    /\ UNCHANGED <<inputVars, schedulerVars, credVars, pageVars>>

\* ---- case 'fill': waitForSelector, then fill -------------------------------
FillWaitDone ==
    /\ rtPc = "fill.waitForSelector"
    /\ \E ok \in BOOLEAN :
         /\ ok => ReachesBrowser(calls[Len(calls)])
         /\ IF ok
            THEN /\ rtPc' = "fill.fill"
                 /\ calls' = Append(calls,
                               Call("fill", testActions[actionIdx].selector,
                                    FALSE,
                                    ActionTimeout(testActions[actionIdx])))
                 /\ UNCHANGED <<sessionVars, loopVars, clickAttempt, caught,
                                rtResult, dispatchLog, closeLog, passLog>>
            ELSE Propagate(Error("fill.waitForSelector", actionIdx, 0))
    /\ UNCHANGED <<inputVars, lastError, schedulerVars, credVars, pageVars>>

FillDone ==
    /\ rtPc = "fill.fill"
    /\ \E ok \in BOOLEAN :
         /\ ok => ReachesBrowser(calls[Len(calls)])
         /\ IF ok
            THEN /\ AfterAction(actionIdx, screenshots)
                 /\ UNCHANGED <<sessionVars, caught, closeLog, passLog>>
            ELSE /\ Propagate(Error("fill.fill", actionIdx, 0))
                 /\ UNCHANGED lastError
    /\ UNCHANGED <<inputVars, schedulerVars, credVars, pageVars>>

\* ---- case 'evaluate' --------------------------------------------------------
EvaluateDone ==
    /\ rtPc = "evaluate"
    /\ \E ok \in BOOLEAN :
         IF ok
         THEN /\ AfterAction(actionIdx, screenshots)
              /\ UNCHANGED <<sessionVars, caught, closeLog, passLog>>
         ELSE /\ Propagate(Error("evaluate", actionIdx, 0))
              /\ UNCHANGED lastError
    /\ UNCHANGED <<inputVars, schedulerVars, credVars, pageVars>>

\* ---- case 'screenshot' / 'screenshotFullPage' ------------------------------
\* The index was incremented when the path was built, before the capture.
ScreenshotDone ==
    /\ rtPc = "screenshot"
    /\ \E ok \in BOOLEAN :
         IF ok
         THEN /\ AfterAction(actionIdx,
                   Append(screenshots, ActionShot(screenshotIndex - 1)))
              /\ UNCHANGED <<sessionVars, caught, closeLog, passLog>>
         ELSE /\ Propagate(Error("screenshot", actionIdx, 0))
              /\ UNCHANGED lastError
    /\ UNCHANGED <<inputVars, schedulerVars, credVars, pageVars>>

\* ---- default: console.warn; executeAction returns an empty result ----------
UnknownDone_Throws ==
    /\ rtPc = "unknown"
    /\ Fail(Error("unknown", actionIdx, 0))
    /\ UNCHANGED <<inputVars, lastError, schedulerVars, credVars, pageVars>>

UnknownDone ==
    /\ rtPc = "unknown"
    /\ AfterAction(actionIdx, screenshots)
    /\ UNCHANGED <<inputVars, sessionVars, caught, closeLog, passLog,
                   schedulerVars, credVars, pageVars>>

\* ---- price = await extractPrice(page) ---------------------------------------
\* extractPrice returns the price it reads from the page, or undefined when
\* it finds none or its evaluation throws.
ExtractPriceDone ==
    /\ rtPc = "extractPrice"
    /\ \E threw \in BOOLEAN, found \in Prices \cup {Null} :
         LET p == IF threw THEN OnExtractError
                  ELSE IF found = Null THEN NoPrice ELSE found
         IN  /\ evalThrew' = threw
             /\ IF p = Thrown
                THEN /\ Fail(Error("extractPrice", actionIdx, 0))
                     /\ UNCHANGED lastError
                ELSE /\ price' = p
                     /\ passLog' = Append(passLog, p)
                     /\ Dispatch(NextAction(actionIdx), screenshots, p)
                     /\ UNCHANGED <<sessionVars, screenshots, caught,
                                    closeLog>>
    /\ UNCHANGED <<inputVars, pageContent, extracted, schedulerVars, credVars>>

\* ---- clickWithRetry: catch (error) of one click attempt ---------------------
ClickCatch(err) ==
    /\ lastError' = KeepError(lastError, err)
    /\ IF Recovers(clickAttempt)
       THEN /\ rtPc' = "click.probe"
            /\ calls' = Append(calls, Call("$", "text=retry-dialog", FALSE,
                                      0))
            /\ UNCHANGED <<sessionVars, loopVars, clickAttempt, caught,
                           rtResult, dispatchLog, closeLog, passLog>>
       ELSE Fail(KeepError(lastError, err))

ClickWaitDone ==
    /\ rtPc = "click.waitForSelector"
    /\ \E ok \in BOOLEAN :
         /\ ok => ReachesBrowser(calls[Len(calls)])
         /\ IF ok
            THEN /\ rtPc' = "click.click"
                 /\ calls' = Append(calls,
                               Call("click", testActions[actionIdx].selector,
                                    Forced(clickAttempt),
                                    ClickAllowance(
                                      ActionTimeout(testActions[actionIdx]))))
                 /\ UNCHANGED <<sessionVars, loopVars, clickVars, caught,
                                rtResult, dispatchLog, closeLog, passLog>>
            ELSE ClickCatch(Error("click.waitForSelector", actionIdx,
                                  clickAttempt))
    /\ UNCHANGED <<inputVars, schedulerVars, credVars, pageVars>>

ClickDone ==
    /\ rtPc = "click.click"
    /\ \E ok \in BOOLEAN :
         /\ ok => ReachesBrowser(calls[Len(calls)])
         /\ IF ok
            THEN /\ atConfirm' \in BOOLEAN
                 /\ AfterAction(actionIdx, screenshots)
                 /\ UNCHANGED <<browser, context, page, caught, closeLog,
                                passLog>>
            ELSE ClickCatch(Error("click.click", actionIdx, clickAttempt))
    /\ UNCHANGED <<inputVars, schedulerVars, credVars, pageVars>>

\* ---- const errorDialog = await page.$(...) settles --------------------------
\* A dialog that is found is dismissed; none found, or a throw caught by
\* the inner try, leads to the cooldown.
DialogProbeDone ==
    /\ rtPc = "click.probe"
    /\ \E found \in BOOLEAN :
         IF found
         THEN /\ rtPc' = "click.dismiss"
              /\ calls' = Append(calls, Call("click", "text=OK", TRUE,
                                        DISMISS_TIMEOUT_MS))
         ELSE /\ rtPc' = "click.cooldown"
              /\ calls' = Append(calls, Call("waitForTimeout", "n/a", FALSE,
                                        COOLDOWN_MS))
    /\ UNCHANGED <<inputVars, sessionVars, loopVars, clickVars, caught,
                   rtResult, dispatchLog, closeLog, passLog, schedulerVars, credVars, pageVars>>

\* ---- page.click('text=OK', ...).catch(() => {}) settles ---------------------
DismissDone ==
    /\ rtPc = "click.dismiss"
    /\ rtPc' = "click.settle"
    /\ calls' = Append(calls, Call("waitForTimeout", "n/a", FALSE, SETTLE_MS))
    /\ UNCHANGED <<inputVars, sessionVars, loopVars, clickVars, caught,
                   rtResult, dispatchLog, closeLog, passLog, schedulerVars, credVars, pageVars>>

\* ---- await page.waitForTimeout(500) settles (a throw is caught) ------------
SettleDone ==
    /\ rtPc = "click.settle"
    /\ rtPc' = "click.cooldown"
    /\ calls' = Append(calls, Call("waitForTimeout", "n/a", FALSE, COOLDOWN_MS))
    /\ UNCHANGED <<inputVars, sessionVars, loopVars, clickVars, caught,
                   rtResult, dispatchLog, closeLog, passLog, schedulerVars, credVars, pageVars>>

\* ---- await page.waitForTimeout(1000) settles: attempt++ ---------------------
\* The cooldown stands in the catch block outside the inner try: a throw
\* of it leaves clickWithRetry.
CooldownDone ==
    /\ rtPc = "click.cooldown"
    /\ \E ok \in BOOLEAN :
         IF ok
         THEN /\ clickAttempt' = clickAttempt + 1
              /\ rtPc' = "click.waitForSelector"
              /\ calls' = Append(calls,
                            Call("waitForSelector",
                                 testActions[actionIdx].selector, FALSE,
                                 ClickAllowance(
                                   ActionTimeout(testActions[actionIdx]))))
              /\ UNCHANGED <<sessionVars, loopVars, caught, rtResult,
                             dispatchLog, closeLog, passLog>>
         ELSE Fail(Error("click.cooldown", actionIdx, clickAttempt))
    /\ UNCHANGED <<inputVars, lastError, schedulerVars, credVars, pageVars>>

\* ---- the failure screenshot settles; the failed result is returned ---------
ErrorScreenshotDone ==
    /\ rtPc = "errorScreenshot"
    /\ \E ok \in BOOLEAN :
         LET shots == IF ok THEN Append(screenshots, ErrorShot(rtAttempt))
                      ELSE screenshots
         IN
         /\ screenshots' = shots
         /\ rtResult' = FailedResult(rtAttempt, caught, shots)
    /\ Finally
    /\ UNCHANGED <<inputVars, sessionVars, actionIdx, screenshotIndex, price,
                   clickVars, caught, rtHistVars, schedulerVars, credVars, pageVars>>

\* ---- finally: await context.close() settles ---------------------------------
ContextCloseDone ==
    /\ rtPc = "context.close"
    /\ context' = "closed"
    /\ closeLog' = Append(closeLog, "context")
    /\ rtPc' = IF browser # "null" THEN "browser.close" ELSE "done"
    /\ UNCHANGED <<inputVars, browser, page, atConfirm, loopVars, clickVars,
                   caught, rtResult, dispatchLog, calls, passLog,
                   schedulerVars, credVars, pageVars>>

\* ---- finally: await browser.close() settles; runTest resolves --------------
BrowserCloseDone ==
    /\ rtPc = "browser.close"
    /\ browser' = "closed"
    /\ closeLog' = Append(closeLog, "browser")
    /\ rtPc' = "done"
    /\ UNCHANGED <<inputVars, context, page, atConfirm, loopVars, clickVars,
                   caught, rtResult, dispatchLog, calls, passLog,
                   schedulerVars, credVars, pageVars>>

\* ---- runTest is about to be called with some test case ---------------------
RunTestInit ==
    /\ parallelCount = 0
    /\ maxRetries = 1
    /\ totalCount = 0
    /\ SchedulerStart
    /\ testActions \in SeqsUpTo(TestActionSet, MaxActions)
    /\ rtAttempt \in {1, MaxAttempts}
    /\ rtPc = "idle"
    /\ browser = "null"
    /\ context = "null"
    /\ page = "null"
    /\ atConfirm = FALSE
    /\ actionIdx = 0
    /\ screenshotIndex = 1
    /\ screenshots = <<>>
    /\ price = NoPrice
    /\ clickAttempt = 0
    /\ lastError = NoError
    /\ caught = NoError
    /\ rtResult = NoRunResult
    /\ dispatchLog = <<>>
    /\ calls = <<>>
    /\ closeLog = <<>>
    /\ passLog = <<>>
    /\ CredIdle
    /\ PageIdle

RunTestNext ==
    \/ BeginRunTest
    \/ LaunchDone
    \/ NewContextDone
    \/ NewPageDone
    \/ GotoDone
    \/ FillWaitDone
    \/ FillDone
    \/ EvaluateDone
    \/ ScreenshotDone
    \/ UnknownDone
    \/ ExtractPriceDone
    \/ ClickWaitDone
    \/ ClickDone
    \/ DialogProbeDone
    \/ DismissDone
    \/ SettleDone
    \/ CooldownDone
    \/ ErrorScreenshotDone
    \/ ContextCloseDone
    \/ BrowserCloseDone

RunTestSpec == RunTestInit /\ [][RunTestNext]_vars

\* ---- vocabulary of the attempt claims -------------------------------------
\* runTest has resolved: its TestResult is handed back to the caller
Returned == rtPc = "done"

\* the awaits after which the action loop moves on to the next action
ActionSettles ==
    {"goto", "fill.fill", "evaluate", "screenshot", "unknown", "click.click",
     "extractPrice"}

\* C11: within one attempt the actions are dispatched in the order of the
\* action list, one at a time: the dispatched positions are 1, 2, 3, ...
\* without gap or repetition, a success has dispatched every action, a new
\* action is dispatched only in a step in which the previous one (or the
\* initial navigation) has settled, and once the navigation or an action
\* has failed no further action is dispatched.
C11_OrderedDispatch ==
    /\ [](/\ dispatchLog = [k \in 1..Len(dispatchLog) |-> k]
          /\ Len(dispatchLog) <= Len(testActions)
          /\ (Returned /\ rtResult.success
                => Len(dispatchLog) = Len(testActions)))
    /\ [][/\ dispatchLog' # dispatchLog
             => /\ rtPc \in ActionSettles
                /\ caught = NoError
                /\ caught' = NoError
          /\ caught # NoError => dispatchLog' = dispatchLog]_vars

C11_Witness ==
    /\ Returned
    /\ Len(testActions) = MaxActions
    /\ dispatchLog = <<1>>
    /\ caught.idx = 1
    /\ ~rtResult.success

\* a price pass of this attempt has found a price
PriceFound == \E k \in 1..Len(passLog) : passLog[k] \in Prices

\* C12: partial-failure preservation: when a price was extracted during the
\* attempt and the attempt then fails, the failed TestResult that runTest
\* returns carries a price.
C12_FailedResultKeepsPrice ==
    (Returned /\ ~rtResult.success /\ PriceFound) => rtResult.price \in Prices

\* the value of the most recent price pass that found a price
LastFound ==
    LET found == {k \in 1..Len(passLog) : passLog[k] \in Prices}
    IN  passLog[CHOOSE k \in found : \A j \in found : j <= k]

\* C13: most recent wins: the price of the TestResult of a successful
\* attempt is the value of the most recent price pass that found a price;
\* a later pass that finds none does not erase it.
C13_MostRecentFoundPrice ==
    (Returned /\ rtResult.success /\ PriceFound)
        => rtResult.price = LastFound

ClickPcs ==
    {"click.waitForSelector", "click.click", "click.probe", "click.dismiss",
     "click.settle", "click.cooldown"}

\* the stages at which one click attempt can fail
ClickStages == {"click.waitForSelector", "click.click"}

\* The most recent click of the attempt returned from its third attempt
\* after its first two attempts had failed: the last recorded failure is
\* that of attempt 2, and attempt 3 recorded none.
ClickRecovered ==
    /\ rtPc \notin ClickPcs
    /\ clickAttempt = CLICK_MAX_RETRIES
    /\ lastError.try = CLICK_MAX_RETRIES - 1

\* C15: click recovery: the failure of a first or second click attempt
\* never reaches the catch block of runTest, and when the third attempt
\* succeeds after two failed ones the click's error is not propagated and
\* the loop has gone on to the next action (or, after the last action, to
\* the successful return).
C15_ClickRecovery ==
    /\ caught.at \in ClickStages => caught.try = CLICK_MAX_RETRIES
    /\ ClickRecovered =>
         /\ caught.idx # lastError.idx
         /\ actionIdx = Len(dispatchLog) \/ actionIdx = Len(testActions) + 1
         /\ actionIdx > lastError.idx
         /\ lastError.idx < Len(testActions)
              => dispatchLog[lastError.idx + 1] = lastError.idx + 1
         /\ lastError.idx = Len(testActions) => rtResult.success

C15_Witness ==
    /\ ClickRecovered
    /\ Returned
    /\ rtResult.success
    /\ dispatchLog = <<1, 2>>
    /\ lastError.idx = 1

\* click attempts begun for the current action: each begins with the wait
\* for the selector
AttemptsMade ==
    Cardinality({k \in 1..Len(calls) : calls[k].op = "waitForSelector"})

\* C16: click exhaustion: clickWithRetry never makes more attempts than its
\* budget, and when the failure of a click attempt aborts the test attempt,
\* exactly the budget of attempts has been made and the error that aborts
\* it, and that the failed TestResult reports, is the error of the last
\* attempt.
C16_ClickExhaustion ==
    /\ clickAttempt <= CLICK_MAX_RETRIES
    /\ rtPc \in ClickPcs => AttemptsMade = clickAttempt
    /\ caught.at \in ClickStages =>
         /\ AttemptsMade = CLICK_MAX_RETRIES
         /\ caught.try = CLICK_MAX_RETRIES
         /\ caught.idx = actionIdx
         /\ caught = lastError
         /\ Returned => rtResult.error = caught /\ ~rtResult.success

C16_Witness ==
    /\ Returned
    /\ caught.at = "click.click"
    /\ caught.try = CLICK_MAX_RETRIES
    /\ AttemptsMade = CLICK_MAX_RETRIES
    /\ rtResult.error = Error("click.click", actionIdx, CLICK_MAX_RETRIES)
    /\ actionIdx = MaxActions

\* C17: an action of a type executeAction does not know is harmless: it
\* makes no browser call, and the step that completes it raises no error
\* and changes nothing the TestResult is built from (screenshots, price,
\* the session) except that the loop moves on: the next action is
\* dispatched (a capture taking the next screenshot index, the unknown
\* action having used none), or after the last action the successful
\* result is returned, as if the action were not in the list.
C17_UnknownActionHarmless ==
    [][rtPc = "unknown" =>
         /\ calls = <<>>
         /\ caught' = NoError
         /\ UNCHANGED <<screenshots, price, passLog, sessionVars>>
         /\ actionIdx' = actionIdx + 1
         /\ IF actionIdx < Len(testActions)
            THEN /\ dispatchLog' = Append(dispatchLog, actionIdx + 1)
                 /\ rtResult' = rtResult
                 /\ screenshotIndex' =
                      IF testActions[actionIdx + 1].type \in CaptureTypes
                      THEN screenshotIndex + 1 ELSE screenshotIndex
            ELSE /\ rtResult' = PassedResult(rtAttempt, price, screenshots)
                 /\ screenshotIndex' = screenshotIndex
      ]_vars

C17_Witness ==
    /\ Returned
    /\ rtResult.success
    /\ Len(testActions) >= 2
    /\ testActions[1].type = "doesNotExist"
    /\ testActions[2].type = "screenshot"
    /\ rtResult.screenshots = <<ActionShot(1)>>

\* the action being executed needs a target and supplies no selector
MissingTarget ==
    /\ actionIdx \in 1..Len(testActions)
    /\ testActions[actionIdx].type \in TargetTypes
    /\ testActions[actionIdx].selector = Undefined

\* C18: an action that needs a target and supplies none fails before any
\* browser interaction is attempted for it: none of the calls made for it
\* reaches the browser.
C18_MissingTargetFailsFirst ==
    MissingTarget => \A k \in 1..Len(calls) : ~ReachesBrowser(calls[k])

\* =========================================================================
\* Credentials: getCredentials and replaceCredentialPlaceholders
\* =========================================================================
SchedulerIdle ==
    /\ parallelCount = 0
    /\ maxRetries = 1
    /\ totalCount = 0
    /\ SchedulerStart

\* ---- runTest: const creds = getCredentials(credentialKey, workerId) ---------
ResolveCredentials ==
    /\ creds = NoCredentials
    /\ creds' = GetCredentials(credentialKey, credWorkerId, env)
    /\ UNCHANGED <<env, credentialKey, credWorkerId, valueAction, handed,
                   schedulerVars, runTestVars, pageVars>>

CredInit ==
    /\ SchedulerIdle
    /\ RunTestIdle
    /\ env \in Envs
    /\ credentialKey \in CredentialKeys
    /\ credWorkerId \in 0..MaxParallel
    /\ creds = NoCredentials
    /\ valueAction = NoAction
    /\ handed = NotHanded
    /\ PageIdle

CredNext == ResolveCredentials

CredSpec == CredInit /\ [][CredNext]_vars

\* ---- executeAction hands the value of a fill or evaluate to the page -------
HandValue ==
    /\ handed = NotHanded
    /\ handed' = ValueHanded(valueAction, creds)
    /\ UNCHANGED <<env, credentialKey, credWorkerId, creds, valueAction,
                   schedulerVars, runTestVars, pageVars>>

\* the credentials some worker can resolve in some environment
Resolvable ==
    {GetCredentials(k, w, E) :
       k \in CredentialKeys, w \in 0..MaxParallel, E \in Envs}

ValueInit ==
    /\ SchedulerIdle
    /\ RunTestIdle
    /\ env = {}
    /\ credentialKey = ""
    /\ credWorkerId = 0
    /\ creds \in Resolvable
    /\ valueAction \in ValueActions
    /\ handed = NotHanded
    /\ PageIdle

ValueNext == HandValue

ValueSpec == ValueInit /\ [][ValueNext]_vars

\* getCredentials has returned
Resolved == creds # NoCredentials

\* the value a variable that is set has in the environment
ValueOf(name) == Token("value", name.profile, name.field, name.worker)

\* C19: credential precedence: for worker w of a profile, when both
\* <PROFILE>_LOGIN_USER_W<w> and <PROFILE>_LOGIN_PASS_W<w> are set the
\* resolved login pair is that pair, whether or not the shared pair is set;
\* when neither is set the resolved pair is the shared <PROFILE>_LOGIN_USER
\* and <PROFILE>_LOGIN_PASS (each empty if unset).
C19_CredentialPrecedence ==
    (Resolved /\ credWorkerId >= 1) =>
        LET profile == IF credentialKey = "stg" THEN "STG" ELSE "DEV"
            workerUser == EnvName(profile, "LOGIN_USER", credWorkerId)
            workerPass == EnvName(profile, "LOGIN_PASS", credWorkerId)
            sharedUser == EnvName(profile, "LOGIN_USER", 0)
            sharedPass == EnvName(profile, "LOGIN_PASS", 0)
        IN
        /\ (workerUser \in env /\ workerPass \in env)
             => creds = Credentials(ValueOf(workerUser), ValueOf(workerPass))
        /\ (workerUser \notin env /\ workerPass \notin env)
             => /\ creds.loginUser = IF sharedUser \in env
                                     THEN ValueOf(sharedUser) ELSE Empty
                /\ creds.loginPass = IF sharedPass \in env
                                     THEN ValueOf(sharedPass) ELSE Empty

C19_Witness ==
    /\ Resolved
    /\ credWorkerId = 2
    /\ credentialKey = "dev"
    /\ env = {EnvName("DEV", f, w) : f \in Fields, w \in {0, 2}}
    /\ creds.loginUser = ValueOf(EnvName("DEV", "LOGIN_USER", 2))
    /\ creds.loginPass = ValueOf(EnvName("DEV", "LOGIN_PASS", 2))

\* executeAction has handed the value to the page
Handed == handed # NotHanded

\* the value with every placeholder token replaced by the credential it names
Substituted(v, c) ==
    [i \in 1..Len(v) |->
       IF v[i] = UserToken THEN c.loginUser
       ELSE IF v[i] = PassToken THEN c.loginPass
       ELSE v[i]]

\* C20: for a fill and for a script evaluation the value handed to the
\* browser is the action's value with the {{LOGIN_USER}} and {{LOGIN_PASS}}
\* tokens replaced by the resolved login name and password: no placeholder
\* token of the action's value reaches the browser.
C20_PlaceholdersSubstituted ==
    Handed => /\ handed = Substituted(valueAction.value, creds)
              /\ \A i \in 1..Len(handed) :
                    handed[i] \notin {UserToken, PassToken}

\* =========================================================================
\* Price extraction: extractPrice on a rendered page
\* =========================================================================
\* ---- price = await extractPrice(page) on some page -------------------------
ExtractPriceCall ==
    /\ extracted = NotExtracted
    /\ \E threw \in BOOLEAN :
         /\ evalThrew' = threw
         /\ extracted' = ExtractPrice(pageContent, threw)
    /\ UNCHANGED <<pageContent, schedulerVars, runTestVars, credVars>>

PriceInit ==
    /\ SchedulerIdle
    /\ RunTestIdle
    /\ CredIdle
    /\ pageContent \in Pages
    /\ evalThrew = FALSE
    /\ extracted = NotExtracted

PriceNext == ExtractPriceCall

PriceSpec == PriceInit /\ [][PriceNext]_vars

\* C21: extractPrice tries its strategies in fixed order, first match wins:
\* an amount in the total row is returned (the first one of the row)
\* whatever the page text says; with no amount in a total row the first
\* amount that follows the total label in the page text is returned, so the
\* page text "total-label, space, 3,500" without total row yields 3,500;
\* with neither, no value is returned.
C21_ExtractionPriority ==
    (extracted # NotExtracted /\ ~evalThrew) =>
        LET row    == pageContent.row
            body   == pageContent.body
            \* the amounts in the total row
            inRow  == IF row = NoRow THEN {}
                      ELSE {k \in 1..Len(row) : row[k] \in Prices}
            \* the amounts in the page text that follow the total label
            inBody == {j \in 1..Len(body) :
                         /\ body[j] \in Prices
                         /\ \E i \in 1..(j - 1) :
                              /\ body[i] = TotalLabel
                              /\ \A m \in (i + 1)..(j - 1) :
                                   body[m] = WhiteSpace}
        IN
        /\ \A k \in inRow :
             (\A h \in inRow : k <= h) => extracted = pageContent.row[k]
        /\ inRow = {} =>
             \A j \in inBody :
               (\A h \in inBody : j <= h) => extracted = pageContent.body[j]
        /\ (inRow = {} /\ inBody = {}) => extracted = NoPrice
        /\ pageContent = Page(NoRow, <<TotalLabel, WhiteSpace, "3,500">>)
             => extracted = "3,500"

C21_Witness ==
    /\ extracted = "3,500"
    /\ ~evalThrew
    /\ pageContent.row = <<OtherText, "3,500">>
    /\ pageContent.body = <<TotalLabel, WhiteSpace, "4,200">>

\* =========================================================================
\* Claims about the price pass and the result of a case
\* =========================================================================
\* C22: an exception raised during price extraction is caught and yields no
\* value: the error runTest catches never comes from extractPrice, a pass
\* whose evaluation threw leaves no price, and an attempt that caught no
\* error reports success = TRUE, without a price when its last pass found
\* none.
C22_ExtractionNeverFails ==
    /\ caught.at # "extractPrice"
    /\ (evalThrew /\ rtPc # "extractPrice") =>
         (passLog # <<>> /\ passLog[Len(passLog)] = NoPrice /\ price = NoPrice)
    /\ (Returned /\ caught = NoError) =>
         /\ rtResult.success = TRUE
         /\ (passLog # <<>> /\ passLog[Len(passLog)] = NoPrice) => rtResult.price = NoPrice

C22_Witness ==
    /\ Returned
    /\ evalThrew
    /\ rtResult.success = TRUE
    /\ rtResult.price = NoPrice

\* C23: the final TestResult of a case represents only its last executed
\* attempt: every collected result is the record the last attempt of its
\* case returned (success flag, worker, attempt number), and its attempt
\* number is the number of attempts executed for the case.
C23_LastAttemptOnly ==
    \A i \in 1..Len(results) :
        LET r        == results[i]
            attempts == attemptLog[r.testId]
        IN
        /\ attempts # <<>>
        /\ r = attempts[Len(attempts)]
        /\ r.attempt = Len(attempts)

C23_Witness ==
    \E i \in 1..Len(results) :
        /\ results[i].success
        /\ results[i].attempt = 2
        /\ ~attemptLog[results[i].testId][1].success

\* C24: the persisted result sequence is the collected results in ascending
\* order of test id, whatever order the cases completed in.  Until main has
\* sorted, after the scheduler returned, nothing is persisted and results
\* is in completion order; the persisted sequence has one entry per
\* completed case, the unaltered result of that case's last attempt.
C24_PersistedSortedById ==
    /\ mainPc # "exited" =>
         /\ persisted = <<>>
         /\ Len(results) = Len(completionLog)
         /\ \A i \in 1..Len(results) : results[i].testId = completionLog[i]
    /\ mainPc = "exited" =>
         /\ Len(persisted) = Len(completionLog)
         /\ \A i, j \in 1..Len(persisted) :
              i < j => persisted[i].testId < persisted[j].testId
         /\ \A k \in 1..Len(completionLog) :
              \E i \in 1..Len(persisted) :
                 persisted[i] = attemptLog[completionLog[k]]
                                  [Len(attemptLog[completionLog[k]])]

C24_Witness ==
    /\ mainPc = "exited"
    /\ completionLog = <<2, 1>>
    /\ persisted[1].testId = 1
    /\ persisted[2].testId = 2

\* =========================================================================
\* Claims about clicks and the other action kinds
\* =========================================================================
\* REFACTORING_GUIDE.md, "optional element" clicks: a timeout below 10 s
OPTIONAL_CLICK_LIMIT_S == 10

\* C25: a click whose timeout is below 10 seconds and whose target element
\* is not found does not fail the test: the error runTest catches is never
\* the failed wait for the element of such a click.
C25_OptionalClickSkipped ==
    caught.at = "click.waitForSelector" =>
        LET action == testActions[caught.idx] IN
        ~ /\ action.type = "click"
          /\ action.selector # Undefined
          /\ ActionTimeout(action) < OPTIONAL_CLICK_LIMIT_S * 1000

\* C26: a waitForResponse action suspends the action sequence until a
\* matching network response has been observed or its timeout has elapsed
\* as a failure: while the sequence is at such an action, the wait for the
\* response has been issued to the browser, so the next action is not
\* dispatched before the browser has answered.
C26_WaitForResponseSuspends ==
    (/\ actionIdx \in 1..Len(testActions)
     /\ testActions[actionIdx].type = "waitForResponse") =>
        /\ calls # <<>>
        /\ calls[1].op = "waitForResponse"

\* the calls of the current action that click its target
TargetClicks ==
    {k \in 1..Len(calls) :
        calls[k].op = "click" /\ calls[k].selector # "text=OK"}

\* the click attempt the k-th call of the current action belongs to: the
\* number of waits for the target issued up to it
AttemptAt(k) ==
    Cardinality({j \in 1..k : calls[j].op = "waitForSelector"})

\* C27: clickWithRetry issues attempt 1 as a normal click and every attempt
\* from the second onward as a forced click: a click on the target is
\* forced exactly if it belongs to attempt 2 or later.
C27_ForcedFromSecondAttempt ==
    \A k \in TargetClicks : calls[k].force <=> AttemptAt(k) >= 2

C27_Witness ==
    \E k, m \in TargetClicks :
        /\ AttemptAt(k) = 1 /\ ~calls[k].force
        /\ AttemptAt(m) = CLICK_MAX_RETRIES /\ calls[m].force

\* a call that waits on the target of a click: the wait for the element
\* and the click itself
IsTargetWait(c) ==
    \/ c.op = "waitForSelector"
    \/ (c.op = "click" /\ c.selector # "text=OK")

AtClick ==
    /\ actionIdx \in 1..Len(testActions)
    /\ testActions[actionIdx].type = "click"

\* C28: the click's overall timeout T is divided evenly across the attempt
\* budget B: every wait on the target is granted T/B, and the allowances
\* granted to the waits of all attempts together do not exceed T.
C28_AllowancesWithinTimeout ==
    AtClick =>
        LET \* the time in ms the first n calls of the click may wait on its
            \* target, all together
            granted[n \in 0..Len(calls)] ==
                IF n = 0 THEN 0
                ELSE granted[n - 1]
                       + (IF IsTargetWait(calls[n]) THEN calls[n].timeout
                          ELSE 0)
        IN
        /\ \A k \in 1..Len(calls) :
             IsTargetWait(calls[k]) =>
                 calls[k].timeout * CLICK_MAX_RETRIES
                     = ActionTimeout(testActions[actionIdx])
        /\ granted[Len(calls)] <= ActionTimeout(testActions[actionIdx])

\* the calls of the recovery between two click attempts
IsProbe(c)    == c.op = "$"
IsDismiss(c)  == c.op = "click" /\ c.selector = "text=OK"
IsSettle(c)   == c.op = "waitForTimeout" /\ c.timeout = SETTLE_MS
IsCooldown(c) == c.op = "waitForTimeout" /\ c.timeout = COOLDOWN_MS

\* C29: between a failed click attempt n and attempt n+1 clickWithRetry
\* checks for the error dialog, dismisses it if present, and then waits the
\* cooldown, in that order: the check follows a call of the failed attempt,
\* the dismissal follows the check, the cooldown follows the check or the
\* settling of the dismissal, and the next attempt follows the cooldown.  No
\* failure of the check or the dismissal is caught by runTest.  After the
\* final failed attempt neither check nor cooldown is performed: the budget
\* of B attempts sees fewer than B checks and cooldowns, and when the click
\* has failed for good the last call made was one of the final attempt.
C29_RecoveryOrder ==
    /\ caught.at \notin {"click.probe", "click.dismiss", "click.settle"}
    /\ AtClick =>
         /\ Cardinality({k \in 1..Len(calls) : IsProbe(calls[k])})
              < CLICK_MAX_RETRIES
         /\ Cardinality({k \in 1..Len(calls) : IsCooldown(calls[k])})
              < CLICK_MAX_RETRIES
         /\ caught.at \in ClickStages => IsTargetWait(calls[Len(calls)])
         /\ \A k \in 2..Len(calls) :
              LET c    == calls[k]
                  prev == calls[k - 1]
              IN
              /\ IsProbe(c) => IsTargetWait(prev)
              /\ IsDismiss(c) => IsProbe(prev)
              /\ IsSettle(c) => IsDismiss(prev)
              /\ IsCooldown(c) => (IsProbe(prev) \/ IsSettle(prev))
              /\ c.op = "waitForSelector" => IsCooldown(prev)
              /\ IsTargetWait(prev) =>
                   \/ IsProbe(c)
                   \/ (prev.op = "waitForSelector" /\ c.op = "click"
                         /\ c.selector = prev.selector)
         /\ calls # <<>> => calls[1].op = "waitForSelector"

C29_Witness ==
    /\ AtClick
    /\ caught.at \in ClickStages
    /\ caught.try = CLICK_MAX_RETRIES
    /\ \E k \in 1..Len(calls) :
         /\ k + 4 <= Len(calls)
         /\ IsProbe(calls[k])
         /\ IsDismiss(calls[k + 1])
         /\ IsSettle(calls[k + 2])
         /\ IsCooldown(calls[k + 3])
         /\ calls[k + 4].op = "waitForSelector"
    /\ \E k \in 1..Len(calls) :
         /\ k < Len(calls)
         /\ IsProbe(calls[k])
         /\ IsCooldown(calls[k + 1])

\* C30: every action kind other than click is dispatched at most once per
\* occurrence in the sequence and each of its browser calls is issued once,
\* none of them forced, with no dialog check, dismissal or cooldown; its
\* first failure is the error runTest catches, and once caught no stage of
\* an action is entered again.
C30_OtherKindsSingleAttempt ==
    LET NonClick(i) == /\ i \in 1..Len(testActions)
                       /\ testActions[i].type # "click"
        \* the stages of the executor that belong to an action
        actionPcs == ClickPcs \cup {"fill.waitForSelector", "fill.fill",
                                    "evaluate", "screenshot", "unknown",
                                    "extractPrice"}
    IN
    /\ \A i, j \in 1..Len(dispatchLog) :
         (i # j /\ NonClick(dispatchLog[i])) => dispatchLog[i] # dispatchLog[j]
    /\ NonClick(actionIdx) =>
         /\ \A k \in 1..Len(calls) :
              /\ ~IsProbe(calls[k])
              /\ ~IsDismiss(calls[k])
              /\ calls[k].op # "waitForTimeout"
              /\ ~calls[k].force
         /\ \A j, k \in 1..Len(calls) : j # k => calls[j].op # calls[k].op
         /\ caught.idx = actionIdx => caught.try = 0
    /\ caught # NoError => rtPc \notin actionPcs

C30_Witness ==
    /\ Returned
    /\ actionIdx \in 1..Len(testActions)
    /\ testActions[actionIdx].type = "fill"
    /\ caught = Error("fill.fill", actionIdx, 0)
    /\ Len(calls) = 2
    /\ ~rtResult.success

\* =========================================================================
\* Claims about the failed result, the workers and the exit
\* =========================================================================
\* C31: on an unrecovered action failure runTest returns a failed result
\* whose error is that of the failing action and whose screenshot list holds
\* the screenshots of the capture actions before the failing one, in capture
\* order, followed by the failure screenshot when it could be taken; when it
\* could not, error and earlier entries are as they were.
C31_FailedResultContent ==
    (Returned /\ ~rtResult.success /\ caught.idx >= 1) =>
        LET failing  == testActions[caught.idx]
            captures == {i \in 1..(caught.idx - 1) :
                            testActions[i].type \in CaptureTypes}
            before   == [j \in 1..Cardinality(captures) |-> ActionShot(j)]
        IN
        /\ rtResult.error = caught
        /\ caught.idx \in 1..Len(testActions)
        /\ caught.at \in ClickPcs <=> failing.type = "click"
        /\ caught.at \in {"fill.waitForSelector", "fill.fill"}
             <=> failing.type = "fill"
        /\ caught.at = "screenshot" <=> failing.type \in CaptureTypes
        /\ \/ rtResult.screenshots = before
           \/ rtResult.screenshots = Append(before, ErrorShot(rtAttempt))

C31_Witness ==
    /\ Returned
    /\ ~rtResult.success
    /\ caught.idx = 2
    /\ testActions[1].type = "screenshot"
    /\ rtResult.error = caught
    /\ rtResult.screenshots = <<ActionShot(1)>>

\* C32: on an unrecovered action failure with no price captured so far in
\* the attempt, runTest runs one final price-extraction pass on the page as
\* it stands: when the failed result is returned without an earlier price,
\* the last thing asked of the page before the failure screenshot was that
\* pass, and it is recorded among the passes of the attempt.
C32_FinalPricePassOnFailure ==
    (Returned /\ ~rtResult.success /\ caught.idx >= 1 /\ price = NoPrice) =>
        /\ passLog # <<>>
        /\ calls # <<>>
        /\ calls[Len(calls)].op = "extractPrice"

\* C33: a started worker never stops or stays idle while the queue is
\* non-empty: a worker that has finished left an empty queue, every other
\* started worker is running, delaying or returning the case it claimed, and
\* a worker that has pushed a result while cases remain claims the case at
\* the head of the queue in the same step, whatever the other workers do.
C33_WorkersDrainQueue ==
    /\ [](\A w \in workers :
            /\ wpc[w] = "finished" => queue = <<>>
            /\ wpc[w] # "finished" =>
                 /\ wpc[w] \in {"runTest", "retryDelay", "returning"}
                 /\ item[w] \in CaseIds)
    /\ [][\A w \in workers :
            (wpc[w] = "returning" /\ queue # <<>>
               /\ Len(results') = Len(results) + 1
               /\ results'[Len(results')] = lastResult[w]) =>
                /\ item'[w] = Head(queue)
                /\ queue' = Tail(queue)]_vars

C33_Witness ==
    /\ parallelCount = 2
    /\ wpc[1] = "retryDelay"
    /\ item[1] = 1
    /\ wpc[2] = "finished"
    /\ queue = <<>>
    /\ \E i \in 1..Len(results) : results[i].testId = 2

\* C34: while workers are running the shared results collection is
\* append-only: until runTestsInParallel has returned, every step leaves
\* results unchanged or appends exactly one entry at its end, the entries
\* already there staying as and where they are.
C34_ResultsAppendOnly ==
    [][mainPc \notin {"returned", "exited"} =>
          \/ results' = results
          \/ /\ Len(results') = Len(results) + 1
             /\ SubSeq(results', 1, Len(results)) = results]_vars

C34_Witness ==
    /\ mainPc = "join"
    /\ Len(results) = 1
    /\ \E w \in workers : wpc[w] = "returning" /\ lastResult[w] # results[1]

\* =========================================================================
\* The worker pool with credentials in the environment
\* =========================================================================
\* The scheduler as in Spec, started with retries allowed and all cases of
\* one credential profile, in an environment that sets some of the login
\* variables of that profile.
PoolCredInit ==
    /\ parallelCount \in 1..MaxParallel
    /\ maxRetries = 2
    /\ totalCount = MaxCases
    /\ SchedulerStart
    /\ RunTestIdle
    /\ PageIdle
    /\ env \in {E \in Envs : \A n \in E : n.profile = "DEV"}
    /\ credentialKey = "dev"
    /\ credWorkerId = 0
    /\ creds = NoCredentials
    /\ valueAction = NoAction
    /\ handed = NotHanded

PoolCredSpec == PoolCredInit /\ [][Next]_vars

\* C35: when every worker 1..N has a complete worker-specific login pair
\* (pairwise distinct: every variable holds its own value), no two attempts
\* in flight at the same time use the same login identity, in either field.
C35_DistinctIdentitiesInFlight ==
    (\A w \in 1..parallelCount :
        /\ EnvName("DEV", "LOGIN_USER", w) \in env
        /\ EnvName("DEV", "LOGIN_PASS", w) \in env) =>
    \A v, w \in workers :
        (v # w /\ wpc[v] = "runTest" /\ wpc[w] = "runTest") =>
            /\ workerCreds[v].loginUser # workerCreds[w].loginUser
            /\ workerCreds[v].loginPass # workerCreds[w].loginPass

C35_Witness ==
    /\ parallelCount = 2
    /\ wpc[1] = "runTest"
    /\ wpc[2] = "runTest"
    /\ attempt[1] = 2
    /\ workerCreds[1].loginUser = Lookup(env, EnvName("DEV", "LOGIN_USER", 1))
    /\ workerCreds[2].loginUser = Lookup(env, EnvName("DEV", "LOGIN_USER", 2))
    /\ Truthy(workerCreds[1].loginUser)
    /\ Truthy(workerCreds[2].loginUser)

\* C36: when only one of the two worker-specific variables of worker w is
\* set, getCredentials returns the shared pair for both fields (each empty
\* if unset); the resolved pair is never a worker-specific username with a
\* shared password or the reverse.
C36_NoMixedPair ==
    (Resolved /\ credWorkerId >= 1) =>
        LET profile == IF credentialKey = "stg" THEN "STG" ELSE "DEV"
            workerUser == EnvName(profile, "LOGIN_USER", credWorkerId)
            workerPass == EnvName(profile, "LOGIN_PASS", credWorkerId)
            sharedUser == EnvName(profile, "LOGIN_USER", 0)
            sharedPass == EnvName(profile, "LOGIN_PASS", 0)
        IN
        /\ ((workerUser \in env) # (workerPass \in env)) =>
             /\ creds.loginUser = IF sharedUser \in env
                                  THEN ValueOf(sharedUser) ELSE Empty
             /\ creds.loginPass = IF sharedPass \in env
                                  THEN ValueOf(sharedPass) ELSE Empty
        /\ (creds.loginUser.worker >= 1) <=> (creds.loginPass.worker >= 1)

C36_Witness ==
    /\ Resolved
    /\ credWorkerId = 1
    /\ credentialKey = "dev"
    /\ env = {EnvName("DEV", "LOGIN_USER", 1), EnvName("DEV", "LOGIN_USER", 0),
              EnvName("DEV", "LOGIN_PASS", 0)}
    /\ creds = Credentials(ValueOf(EnvName("DEV", "LOGIN_USER", 0)),
                           ValueOf(EnvName("DEV", "LOGIN_PASS", 0)))

\* C37: conservation of cases.  Once runTestsInParallel has created the
\* queue, the cases still queued, the cases held by a worker (shifted but
\* their result not yet pushed) and the results collected add up to the
\* number of input cases, and the three groups are disjoint.
C37_Conservation ==
    mainPc # "start" =>
        LET held == {item[w] : w \in {v \in WorkerIds : item[v] # 0}}
            queued == Range(queue)
            done == {results[i].testId : i \in 1..Len(results)}
        IN
        /\ Len(queue) + Cardinality({w \in WorkerIds : item[w] # 0})
             + Len(results) = totalCount
        /\ held = InFlight
        /\ queued \cap held = {} /\ queued \cap done = {} /\ held \cap done = {}
        /\ queued \cup held \cup done = Cases

C37_Witness ==
    /\ mainPc # "start"
    /\ totalCount = MaxCases
    /\ \E w \in WorkerIds : item[w] # 0
    /\ Len(results) >= 1
    /\ Len(queue) = totalCount - 1 - Len(results)

\* C38: every attempt of a case is run by the one worker that claimed it,
\* every attempt that starts resolves the credentials anew for that worker,
\* and the result recorded for the case carries that worker's id, which is
\* in 1..parallelCount.
C38_OneWorkerPerCase ==
    /\ [](\A c \in Cases :
            /\ Len(claimedBy[c]) <= 1
            /\ \A i \in 1..Len(attemptLog[c]) :
                 /\ claimedBy[c] # <<>>
                 /\ attemptLog[c][i].workerId = claimedBy[c][1]
                 /\ attemptLog[c][i].attempt = i
            /\ \A k \in ResultsFor(c) :
                 /\ results[k] = attemptLog[c][Len(attemptLog[c])]
                 /\ results[k].workerId = claimedBy[c][1]
                 /\ results[k].workerId \in 1..parallelCount)
    /\ [](\A w \in WorkerIds :
            wpc[w] = "runTest" =>
                /\ claimedBy[item[w]] = <<w>>
                /\ workerCreds[w] = GetCredentials(credentialKey, w, env))
    /\ [][\A w \in WorkerIds :
            (wpc'[w] = "runTest"
               /\ (wpc[w] # "runTest" \/ attempt'[w] # attempt[w]
                     \/ item'[w] # item[w]))
            => /\ attemptsStarted'[item'[w]] = attemptsStarted[item'[w]] + 1
               /\ workerCreds'[w] = GetCredentials(credentialKey, w, env)]_vars

C38_Witness ==
    \E k \in 1..Len(results) :
        /\ results[k].workerId = 2
        /\ results[k].attempt = 2
        /\ Len(attemptLog[results[k].testId]) = 2
        /\ workerCreds[2] = Credentials(ValueOf(EnvName("DEV", "LOGIN_USER", 2)),
                                        ValueOf(EnvName("DEV", "LOGIN_PASS", 2)))

\* C39: for every configured maximum attempt count, values below 1
\* included, runTestWithRetry has run at least one attempt of the case when
\* it returns, and what it returns is the TestResult of an attempt that ran,
\* never an absent result.
C39_AtLeastOneAttempt ==
    \A w \in WorkerIds :
        wpc[w] = "returning" =>
            /\ attemptsStarted[item[w]] >= 1
            /\ lastResult[w] # NoResult
            /\ \E i \in 1..Len(attemptLog[item[w]]) :
                 attemptLog[item[w]][i] = lastResult[w]

\* C40: the process exits with code 0 only if every loaded case has a
\* successful TestResult among the persisted results; whatever the
\* concurrency limit (0 included), it never exits 0 while a loaded case was
\* not run.
C40_ExitZeroOnlyIfAllRan ==
    exitCode = 0 =>
        \A c \in Cases :
            /\ attemptsStarted[c] >= 1
            /\ \E i \in 1..Len(persisted) :
                 persisted[i].testId = c /\ persisted[i].success

====
